---- MODULE Spec2Model ----
(***************************************************************************)
(* Model of the agri-connect marketplace: the orders / order_items /       *)
(* payments tables with the update_order_total trigger, Checkout.onSubmit, *)
(* PaymentService and the PaymentProcessor component, and the public       *)
(* Products listing under the row-level policies.                          *)
(*                                                                         *)
(* Money is counted in whole currency units (DECIMAL(10,2) values with no  *)
(* fractional part).  A database request of the supabase client is one     *)
(* atomic step; the code between two awaits runs with the step before it.  *)
(***************************************************************************)
EXTENDS Integers, Sequences, FiniteSets, Bags, TLC

VARIABLES
    orders,        \* public.orders: order id -> row
    order_items,   \* public.order_items: item id -> row
    payments,      \* public.payments: payment id -> row
    orders_check,  \* the values the CHECK on orders.payment_status admits
    vendors,       \* public.vendors: vendor id -> row
    products,      \* public.products: product id -> row
    listing,       \* per viewer: the products held by the Products page
    cart,          \* per browser tab: the CartProvider reducer state
    localStorage,  \* the value stored under 'agriconnect-cart'
    checkout,      \* per browser tab: Checkout's loading flag and its onSubmit run
    placed,        \* history: order id -> the cart lines its onSubmit was run with
    pp,            \* per payment page: the PaymentProcessor component's state
    tasks,         \* the bag of async calls of PaymentProcessor in flight
    user_roles,    \* public.user_roles: the set of <<user_id, role>> rows
    registration,  \* per user: the position of VendorRegistration.handleSubmit
    form           \* the ProductForm of a vendor: its onSubmit run

catalogVars == <<vendors, products, listing>>
cartVars == <<cart, localStorage>>
checkoutVars == <<checkout, placed>>
payVars == <<pp, tasks>>
formVars == <<user_roles, registration, form>>
vars == <<orders, order_items, payments, orders_check, vendors, products, listing, cart, localStorage,
          checkout, placed, pp, tasks, user_roles, registration, form>>

(***************************************************************************)
(* Bounds                                                                  *)
(***************************************************************************)
MaxOrders == 2
MaxSqlRows == 3
MaxQty == 2
MaxTabs == 2
MaxPages == 1
MaxPayOrders == 1
MaxPayments == 2
MaxTasks == 2
MaxPricedOrders == 1
MaxErrors == 2

OrderIds == 1..MaxOrders
SqlItemIds == 1..MaxSqlRows
Prices == {10, 15}
Quantities == 1..MaxQty
Tabs == 1..MaxTabs
Pages == 1..MaxPages
PaymentIds == 1..MaxPayments
VendorIds == {1, 2}
\* auth.uid(): 0 for a visitor who is not signed in, 1 and 2 own the vendors
\* of the same number, 3 has the admin role
Viewers == 0..3
\* the signed-in users
Users == 1..3
ProductIds == {1, 2}
\* a checkout inserts at most one line per product
ItemIds == 1..(MaxOrders * Cardinality(ProductIds))

\* SQL NULL (ids and amounts of existing rows are positive)
NULL == 0

COALESCE(a, b) == IF a # NULL THEN a ELSE b

\* useState(5.00) in Checkout
deliveryFee == 5

(***************************************************************************)
(* Tables                                                                  *)
(***************************************************************************)
\* id of the row a DEFAULT gen_random_uuid() insert creates
FreshId(table, ids) == CHOOSE i \in ids \ DOMAIN table : \A j \in ids \ DOMAIN table : i <= j

WithRow(table, id, row) == [i \in DOMAIN table \cup {id} |-> IF i = id THEN row ELSE table[i]]

WithoutRow(table, id) == [i \in DOMAIN table \ {id} |-> table[i]]

RECURSIVE SumSubtotals(_, _)
\* SELECT SUM(subtotal) FROM order_items WHERE order_id = oid  (0 for no rows)
SumSubtotals(items, oid) ==
    LET S == {i \in DOMAIN items : items[i].order_id = oid}
    IN IF S = {} THEN 0
       ELSE LET i == CHOOSE j \in S : TRUE
            IN items[i].subtotal + SumSubtotals(WithoutRow(items, i), oid)

\* the trigger function, run after one row of order_items changed:
\* recomputes the order COALESCE(NEW.order_id, OLD.order_id) only
update_order_total(ords, items, newOrderId, oldOrderId) ==
    LET oid == COALESCE(newOrderId, oldOrderId)
    IN [o \in DOMAIN ords |->
          IF o = oid
          THEN [ords[o] EXCEPT !.total_amount = SumSubtotals(items, oid) + ords[o].delivery_fee]
          ELSE ords[o]]

OrderRow(total, fee, method) ==
    [total_amount |-> total, delivery_fee |-> fee, status |-> "pending",
     payment_status |-> "pending", payment_method |-> method,
     customer_name |-> "customer"]

ItemRow(oid, pid, qty, price, sub) ==
    [order_id |-> oid, product_id |-> pid, quantity |-> qty, unit_price |-> price,
     subtotal |-> sub]

(***************************************************************************)
(* Row operations on order_items (SQL by a role that may manage them),     *)
(* each with its AFTER ... FOR EACH ROW trigger in the same statement      *)
(***************************************************************************)
InsertItem(row) ==
    /\ DOMAIN order_items # SqlItemIds
    /\ row.order_id \in DOMAIN orders
    /\ LET id == FreshId(order_items, SqlItemIds)
           items == WithRow(order_items, id, row)
       IN /\ order_items' = items
          /\ orders' = update_order_total(orders, items, row.order_id, NULL)
    /\ UNCHANGED <<payments, orders_check, catalogVars, cartVars, checkoutVars, payVars, formVars>>

UpdateItem(id, row) ==
    /\ id \in DOMAIN order_items
    /\ row.order_id \in DOMAIN orders
    /\ row # order_items[id]
    /\ LET items == WithRow(order_items, id, row)
       IN /\ order_items' = items
          /\ orders' = update_order_total(orders, items, row.order_id,
                                          order_items[id].order_id)
    /\ UNCHANGED <<payments, orders_check, catalogVars, cartVars, checkoutVars, payVars, formVars>>

DeleteItem(id) ==
    /\ id \in DOMAIN order_items
    /\ LET items == WithoutRow(order_items, id)
       IN /\ order_items' = items
          /\ orders' = update_order_total(orders, items, NULL, order_items[id].order_id)
    /\ UNCHANGED <<payments, orders_check, catalogVars, cartVars, checkoutVars, payVars, formVars>>

NoRows == [i \in {} |-> NULL]

\* one verified vendor with two active products in stock (MaxQty of the first)
InitCatalog ==
    /\ vendors = [v \in {1} |-> [user_id |-> 1, business_name |-> "farm", verification_status |-> "verified"]]
    /\ products = [p \in ProductIds |->
                     [vendor_id |-> 1, is_active |-> TRUE,
                      price |-> IF p = 1 THEN 10 ELSE 15,
                      stock_quantity |-> IF p = 1 THEN MaxQty ELSE 1,
                      image_url |-> "null"]]
    /\ listing = [u \in Viewers |-> {}]

EmptyCart == [items |-> <<>>, total |-> 0, itemCount |-> 0]

IdleCheckout == [pc |-> "idle", loading |-> FALSE, order |-> NULL, items |-> <<>>]

\* no PaymentProcessor is rendered on the page
Unmounted ==
    [mounted |-> FALSE, orderId |-> NULL, paymentMethod |-> "", amount |-> 0,
     processing |-> FALSE, paymentId |-> NULL, paymentStatus |-> "null",
     interval |-> NULL, onError |-> 0]

\* CHECK (payment_status IN (...)) of CREATE TABLE IF NOT EXISTS public.orders
\* in 20250124000002_create_orders_and_payments.sql
PaymentStatusCheck == {"pending", "completed", "failed", "cancelled"}

\* CHECK (payment_status IN (...)) of CREATE TABLE public.orders in the first
\* migration, which stays in force when that table exists already
FirstPaymentStatusCheck == {"pending", "completed", "failed"}

\* ProductForm is not submitting
NewProduct == [vendor_id |-> 1, is_active |-> TRUE, price |-> 15, stock_quantity |-> 1,
               image_url |-> ""]

IdleForm ==
    [pc |-> "idle", product |-> NULL, data |-> NewProduct, image_url |-> "null",
     uploadFailed |-> FALSE]

\* every owner of a vendors row has the vendor role, user 3 has the admin
\* role, nobody is registering and no product form is being submitted
InitAccounts ==
    /\ user_roles = {<<vendors[v].user_id, "vendor">> : v \in DOMAIN vendors}
                       \cup {<<3, "admin">>}
    /\ registration = [u \in Users |-> "idle"]
    /\ form = IdleForm

InitBrowser ==
    /\ cart = [t \in Tabs |-> EmptyCart]
    /\ localStorage = <<>>
    /\ checkout = [t \in Tabs |-> IdleCheckout]
    /\ placed = NoRows
    /\ pp = [c \in Pages |-> Unmounted]
    /\ tasks = EmptyBag

SqlItemRows ==
    {ItemRow(o, 1, q, 10, s) : o \in OrderIds, q \in Quantities, s \in Prices}

\* two orders whose items were all deleted again: total_amount = delivery_fee
InitItems ==
    /\ orders_check = PaymentStatusCheck
    /\ orders = [o \in OrderIds |-> OrderRow(deliveryFee, deliveryFee, "orange_money")]
    /\ order_items = NoRows
    /\ payments = NoRows
    /\ InitCatalog
    /\ InitBrowser
    /\ InitAccounts

NextItems ==
    \/ \E row \in SqlItemRows : InsertItem(row)
    \/ \E id \in SqlItemIds, row \in SqlItemRows : UpdateItem(id, row)
    \/ \E id \in SqlItemIds : DeleteItem(id)

SpecItems == InitItems /\ [][NextItems]_vars

(***************************************************************************)
(* CartContext: the reducer, and the provider's load and save effects      *)
(***************************************************************************)
RECURSIVE SumLines(_)
\* items.reduce((sum, item) => sum + (item.price * item.quantity), 0)
SumLines(items) ==
    IF items = <<>> THEN 0
    ELSE Head(items).price * Head(items).quantity + SumLines(Tail(items))

RECURSIVE CountLines(_)
\* items.reduce((sum, item) => sum + item.quantity, 0)
CountLines(items) ==
    IF items = <<>> THEN 0 ELSE Head(items).quantity + CountLines(Tail(items))

CartOf(items) == [items |-> items, total |-> SumLines(items), itemCount |-> CountLines(items)]

\* ADD_ITEM as it would be if it appended the line and kept the old counts
AddItemStaleCount(state, payload) ==
    [items |-> Append(state.items,
                      [productId |-> payload.productId, price |-> payload.price,
                       quantity |-> 1, maxStock |-> payload.maxStock]),
     total |-> state.total, itemCount |-> state.itemCount]

\* cartReducer, case 'ADD_ITEM' (payload.quantity || 1)
AddItem(state, payload) ==
    LET qty == IF payload.quantity # 0 THEN payload.quantity ELSE 1
        idx == {k \in 1..Len(state.items) : state.items[k].productId = payload.productId}
    IN IF idx # {}
       THEN LET k == CHOOSE n \in idx : \A m \in idx : n <= m
                newQuantity == state.items[k].quantity + qty
            IN IF newQuantity > payload.maxStock
               THEN state
               ELSE CartOf([state.items EXCEPT ![k].quantity = newQuantity])
       ELSE IF qty > payload.maxStock
            THEN state
            ELSE CartOf(Append(state.items,
                               [productId |-> payload.productId, price |-> payload.price,
                                quantity |-> qty, maxStock |-> payload.maxStock]))

\* cartReducer, case 'CLEAR_CART'
ClearCart == [items |-> <<>>, total |-> 0, itemCount |-> 0]

\* cartReducer, case 'LOAD_CART'
LoadCart(items) == CartOf(items)

\* cartReducer, case 'REMOVE_ITEM' (a line's id is unique to its product)
RemoveItem(state, id) ==
    CartOf(SelectSeq(state.items, LAMBDA item : item.productId # id))

\* UPDATE_QUANTITY as it would be if it kept the total it was given
UpdateQuantityStaleTotal(state, id, quantity) ==
    [state EXCEPT !.items =
        [k \in 1..Len(state.items) |->
            LET item == state.items[k]
            IN IF item.productId = id /\ quantity <= item.maxStock
               THEN [item EXCEPT !.quantity = quantity]
               ELSE item]]

\* cartReducer, case 'UPDATE_QUANTITY'
UpdateQuantity(state, id, quantity) ==
    IF quantity <= 0 THEN RemoveItem(state, id)
    ELSE CartOf([k \in 1..Len(state.items) |->
                    LET item == state.items[k]
                    IN IF item.productId = id /\ quantity <= item.maxStock
                       THEN [item EXCEPT !.quantity = quantity]
                       ELSE item])

\* JSON.stringify(state.items): each item with the values of its properties
JSONstringify(items) ==
    [k \in 1..Len(items) |->
        <<items[k].productId, items[k].price, items[k].quantity, items[k].maxStock>>]

\* JSON.parse of the stored text
JSONparse(text) ==
    [k \in 1..Len(text) |->
        [productId |-> text[k][1], price |-> text[k][2], quantity |-> text[k][3],
         maxStock |-> text[k][4]]]

\* Products.handleAddToCart for a listed product, then the save effect
AddToCart(t, p) ==
    /\ checkout[t].pc = "idle"
    /\ p \in DOMAIN products
    /\ products[p].is_active
    /\ LET payload == [productId |-> p, price |-> products[p].price,
                       maxStock |-> products[p].stock_quantity, quantity |-> 1]
           next == AddItem(cart[t], payload)
       IN /\ cart' = [cart EXCEPT ![t] = next]
          /\ localStorage' = IF next.items # cart[t].items
                              THEN JSONstringify(next.items) ELSE localStorage
    /\ UNCHANGED <<orders, order_items, payments, orders_check, catalogVars, checkoutVars, payVars, formVars>>

\* a page load in tab t: CartProvider mounts and loads the saved cart
ReloadTab(t) ==
    /\ checkout[t].pc = "idle"
    /\ cart' = [cart EXCEPT ![t] = LoadCart(JSONparse(localStorage))]
    /\ UNCHANGED <<orders, order_items, payments, orders_check, catalogVars, localStorage, checkoutVars, payVars, formVars>>

\* removeFromCart(id) from the cart panel, then the save effect
RemoveFromCart(t, id) ==
    /\ checkout[t].pc = "idle"
    /\ \E k \in 1..Len(cart[t].items) : cart[t].items[k].productId = id
    /\ LET next == RemoveItem(cart[t], id)
       IN /\ cart' = [cart EXCEPT ![t] = next]
          /\ localStorage' = JSONstringify(next.items)
    /\ UNCHANGED <<orders, order_items, payments, orders_check, catalogVars, checkoutVars, payVars, formVars>>

\* Cart.handleQuantityChange(id, newQuantity) from the -, + buttons and the
\* number input of a cart line, then the save effect
handleQuantityChange(t, id, newQuantity) ==
    /\ checkout[t].pc = "idle"
    /\ \E k \in 1..Len(cart[t].items) : cart[t].items[k].productId = id
    /\ LET next == IF newQuantity < 1 THEN RemoveItem(cart[t], id)
                   ELSE UpdateQuantity(cart[t], id, newQuantity)
       IN /\ cart' = [cart EXCEPT ![t] = next]
          /\ localStorage' = JSONstringify(next.items)
    /\ UNCHANGED <<orders, order_items, payments, orders_check, catalogVars, checkoutVars, payVars, formVars>>

\* clearCart() from the cart panel, then the save effect
ClearCartClick(t) ==
    /\ checkout[t].pc = "idle"
    /\ Len(cart[t].items) > 0
    /\ cart' = [cart EXCEPT ![t] = ClearCart]
    /\ localStorage' = JSONstringify(<<>>)
    /\ UNCHANGED <<orders, order_items, payments, orders_check, catalogVars, checkoutVars, payVars, formVars>>

\* the shop open in several tabs of one browser
NextCart ==
    \/ \E t \in Tabs, p \in ProductIds : AddToCart(t, p)
    \/ \E t \in Tabs, p \in ProductIds : RemoveFromCart(t, p)
    \/ \E t \in Tabs, p \in ProductIds, q \in 0..(MaxQty + 1) : handleQuantityChange(t, p, q)
    \/ \E t \in Tabs : ClearCartClick(t)
    \/ \E t \in Tabs : ReloadTab(t)

(***************************************************************************)
(* Checkout.onSubmit: insert the order, then insert its items              *)
(***************************************************************************)
calculateTotal(t) == cart[t].total + deliveryFee

\* SubmitOrder as it would be with an insert that is idempotent per cart:
\* an order already placed for the same cart lines is returned instead of a new row
SubmitOrderIdempotent(t, method, orderError) ==
    /\ checkout[t].pc = "idle"
    /\ ~checkout[t].loading
    /\ Len(cart[t].items) > 0
    /\ IF orderError
       THEN UNCHANGED <<orders, checkout, placed, formVars>>
       ELSE /\ DOMAIN orders # OrderIds
            /\ LET same == {o \in DOMAIN placed : placed[o] = cart[t].items}
                   id == IF same # {} THEN CHOOSE o \in same : TRUE
                         ELSE FreshId(orders, OrderIds)
               IN /\ orders' = WithRow(orders, id,
                                       OrderRow(calculateTotal(t), deliveryFee, method))
                  /\ checkout' = [checkout EXCEPT ![t] =
                                    [pc |-> "items", loading |-> TRUE, order |-> id,
                                     items |-> cart[t].items]]
                  /\ placed' = WithRow(placed, id, cart[t].items)
    /\ UNCHANGED <<order_items, payments, orders_check, catalogVars, cartVars, payVars, formVars>>

\* onSubmit up to the answer of the orders insert
SubmitOrder(t, method, orderError) ==
    /\ checkout[t].pc = "idle"
    /\ ~checkout[t].loading
    /\ Len(cart[t].items) > 0
    /\ IF orderError
       THEN UNCHANGED <<orders, checkout, placed, formVars>>
       ELSE /\ DOMAIN orders # OrderIds
            /\ LET id == FreshId(orders, OrderIds)
               IN /\ orders' = WithRow(orders, id,
                                       OrderRow(calculateTotal(t), deliveryFee, method))
                  /\ checkout' = [checkout EXCEPT ![t] =
                                    [pc |-> "items", loading |-> TRUE, order |-> id,
                                     items |-> cart[t].items]]
                  /\ placed' = WithRow(placed, id, cart[t].items)
    /\ UNCHANGED <<order_items, payments, orders_check, catalogVars, cartVars, payVars, formVars>>

RECURSIVE InsertOrderItemsLivePrice(_, _, _, _)
\* InsertOrderItems as it would be if unit_price were read from the product
\* row at the time of the insert
InsertOrderItemsLivePrice(ords, items, oid, lines) ==
    IF lines = <<>> THEN [orders |-> ords, order_items |-> items]
    ELSE LET line == Head(lines)
             id == FreshId(items, ItemIds)
             row == ItemRow(oid, line.productId, line.quantity,
                            products[line.productId].price,
                            line.price * line.quantity)
             items2 == WithRow(items, id, row)
         IN InsertOrderItemsLivePrice(update_order_total(ords, items2, oid, NULL), items2,
                                      oid, Tail(lines))

RECURSIVE InsertOrderItems(_, _, _, _)
\* one INSERT statement with several rows: the row trigger runs after each row
InsertOrderItems(ords, items, oid, lines) ==
    IF lines = <<>> THEN [orders |-> ords, order_items |-> items]
    ELSE LET line == Head(lines)
             id == FreshId(items, ItemIds)
             row == ItemRow(oid, line.productId, line.quantity, line.price,
                            line.price * line.quantity)
             items2 == WithRow(items, id, row)
         IN InsertOrderItems(update_order_total(ords, items2, oid, NULL), items2, oid,
                             Tail(lines))

\* onSubmit from the answer of the orders insert to its end
SubmitItems(t, itemsError) ==
    /\ checkout[t].pc = "items"
    /\ IF itemsError
       THEN UNCHANGED <<orders, order_items, cartVars, formVars>>
       ELSE LET r == InsertOrderItems(orders, order_items, checkout[t].order,
                                      checkout[t].items)
            IN /\ orders' = r.orders
               /\ order_items' = r.order_items
               /\ cart' = [cart EXCEPT ![t] = ClearCart]
               /\ localStorage' = <<>>
    /\ checkout' = [checkout EXCEPT ![t] = IdleCheckout]
    /\ UNCHANGED <<payments, orders_check, catalogVars, placed, payVars, formVars>>

PaymentMethods == {"orange_money", "afrimoney", "stripe"}

InitCheckout ==
    /\ orders_check = PaymentStatusCheck
    /\ orders = NoRows
    /\ order_items = NoRows
    /\ payments = NoRows
    /\ InitCatalog
    /\ InitBrowser
    /\ InitAccounts

NextCheckout ==
    \/ \E t \in Tabs, p \in ProductIds : AddToCart(t, p)
    \/ \E t \in Tabs : ReloadTab(t)
    \/ \E t \in Tabs, m \in {"orange_money"}, e \in BOOLEAN : SubmitOrder(t, m, e)
    \/ \E t \in Tabs, e \in BOOLEAN : SubmitItems(t, e)

SpecCheckout == InitCheckout /\ [][NextCheckout]_vars

SpecCart == InitCheckout /\ [][NextCart]_vars

\* ProductForm.onSubmit of a vendor who edits the stock of a product
SetStock(p, stock) ==
    /\ p \in DOMAIN products
    /\ products[p].stock_quantity # stock
    /\ products' = [products EXCEPT ![p].stock_quantity = stock]
    /\ UNCHANGED <<orders, order_items, payments, orders_check, vendors, listing, cartVars,
                   checkoutVars, payVars, formVars>>

\* one tab whose cart starts empty and is never reloaded, and a vendor who
\* edits stock
NextCartStock ==
    \/ \E p \in ProductIds : AddToCart(1, p)
    \/ \E p \in ProductIds : RemoveFromCart(1, p)
    \/ \E p \in ProductIds, q \in 0..(MaxQty + 1) : handleQuantityChange(1, p, q)
    \/ ClearCartClick(1)
    \/ \E p \in ProductIds, stock \in 0..MaxQty : SetStock(p, stock)

SpecCartStock == InitCheckout /\ [][NextCartStock]_vars

\* a customer who edits the cart in tab 1 and checks out there, with a second
\* tab that adds products to the saved cart
NextCartCheckout ==
    \/ \E t \in {1, 2}, p \in ProductIds : AddToCart(t, p)
    \/ \E p \in ProductIds : RemoveFromCart(1, p)
    \/ \E p \in ProductIds, q \in 0..(MaxQty + 1) : handleQuantityChange(1, p, q)
    \/ ClearCartClick(1)
    \/ ReloadTab(1)
    \/ \E e \in BOOLEAN :
          Cardinality(DOMAIN orders) < MaxPricedOrders /\ SubmitOrder(1, "orange_money", e)
    \/ \E e \in BOOLEAN : SubmitItems(1, e)

SpecCartCheckout == InitCheckout /\ [][NextCartCheckout]_vars

\* ProductForm.onSubmit of an existing product by its vendor: a new price
SetPrice(p, price) ==
    /\ p \in DOMAIN products
    /\ products[p].price # price
    /\ products' = [products EXCEPT ![p].price = price]
    /\ UNCHANGED <<orders, order_items, payments, orders_check, vendors, listing, cartVars,
                   checkoutVars, payVars, formVars>>

\* one customer in one tab, and the vendor editing prices meanwhile
NextPricing ==
    \/ \E p \in ProductIds : AddToCart(1, p)
    \/ \E e \in BOOLEAN :
          Cardinality(DOMAIN orders) < MaxPricedOrders /\ SubmitOrder(1, "orange_money", e)
    \/ \E e \in BOOLEAN : SubmitItems(1, e)
    \/ \E p \in ProductIds, price \in Prices : SetPrice(p, price)

SpecPricing == InitCheckout /\ [][NextPricing]_vars

(***************************************************************************)
(* PaymentService                                                          *)
(***************************************************************************)
Terminal == {"completed", "failed", "cancelled"}

\* `txn_${Date.now()}`: some non-null transaction id
TxnId == 1

NoRequest == [orderId |-> NULL, amount |-> 0, paymentMethod |-> ""]

NoResponse == [success |-> FALSE, paymentId |-> NULL, redirectUrl |-> NULL]

\* the row that processOrangeMoneyPayment, processAfriMoneyPayment and
\* processStripePayment insert, each with its own payment_method
PaymentRow(request, method) ==
    [order_id |-> request.orderId, payment_method |-> method, amount |-> request.amount,
     currency |-> "SLL", status |-> "pending", transaction_id |-> NULL,
     customer_name |-> "customer"]

\* processPayment with a default branch that falls through to the card method
processPaymentDefaultStripe(request) ==
    CASE request.paymentMethod = "orange_money" -> {PaymentRow(request, "orange_money")}
      [] request.paymentMethod = "afrimoney" -> {PaymentRow(request, "afrimoney")}
      [] OTHER -> {PaymentRow(request, "stripe")}

\* processPayment: the switch on request.paymentMethod; the rows the chosen
\* method inserts (none for an unsupported method)
processPayment(request) ==
    CASE request.paymentMethod = "orange_money" -> {PaymentRow(request, "orange_money")}
      [] request.paymentMethod = "afrimoney" -> {PaymentRow(request, "afrimoney")}
      [] request.paymentMethod = "stripe" -> {PaymentRow(request, "stripe")}
      [] OTHER -> {}

\* the PaymentResponse as it would be if every method answered with a redirect
SuccessResponseAlwaysRedirect(id, method) ==
    [success |-> TRUE, paymentId |-> id, redirectUrl |-> id]

\* the PaymentResponse of a method whose insert succeeded
SuccessResponse(id, method) ==
    [success |-> TRUE, paymentId |-> id,
     redirectUrl |-> IF method = "stripe" THEN id ELSE NULL]

\* PaymentService.checkPaymentStatus: the row's status, 'failed' when the read fails
checkPaymentStatus(pid, readError) ==
    IF readError THEN "failed" ELSE payments[pid].status

\* updatePaymentStatus as it would be if it matched rows by the payment's order
updatePaymentStatusByOrder(pid, status, transactionId) ==
    [p \in DOMAIN payments |->
        IF payments[p].order_id = payments[pid].order_id
        THEN [payments[p] EXCEPT
                 !.status = status,
                 !.transaction_id = IF transactionId # NULL THEN transactionId ELSE @]
        ELSE payments[p]]

\* updatePaymentStatus as it would be if it dropped the transaction id
updatePaymentStatusNoTxn(pid, status, transactionId) ==
    [payments EXCEPT ![pid] = [@ EXCEPT !.status = status]]

\* the payments update of PaymentService.updatePaymentStatus
updatePaymentStatus(pid, status, transactionId) ==
    [payments EXCEPT ![pid] =
        [@ EXCEPT !.status = status,
                  !.transaction_id = IF transactionId # NULL THEN transactionId ELSE @]]

\* updateOrderPaymentStatus as it would be if it also cleared the delivery fee
updateOrderPaymentStatusAndFee(orderId, paymentStatus, updateError) ==
    IF updateError \/ paymentStatus \notin orders_check THEN orders
    ELSE [orders EXCEPT ![orderId].payment_status = paymentStatus,
                        ![orderId].delivery_fee = 0]

\* PaymentService.updateOrderPaymentStatus: an error (of the transport, or of
\* the CHECK constraint on payment_status) is logged and swallowed
updateOrderPaymentStatus(orderId, paymentStatus, updateError) ==
    IF updateError \/ paymentStatus \notin orders_check THEN orders
    ELSE [orders EXCEPT ![orderId].payment_status = paymentStatus]

(***************************************************************************)
(* Payment page and PaymentProcessor                                       *)
(***************************************************************************)
\* the useEffect on [paymentId]: an interval runs exactly while the component
\* is mounted with a payment id, and its callback polls that id
useEffect(st) ==
    [st EXCEPT !.interval = IF st.mounted /\ st.paymentId # NULL
                            THEN st.paymentId ELSE NULL]

\* the component calls its onError prop: the calls are counted up to MaxErrors
Reported(st) == [st EXCEPT !.onError = IF @ < MaxErrors THEN @ + 1 ELSE @]

Task(pc, c, pid, request, status) ==
    [pc |-> pc, page |-> c, live |-> TRUE, pid |-> pid, request |-> request,
     status |-> status, response |-> NoResponse]

CanStart == BagCardinality(tasks) < MaxTasks

Started(tk) == tasks (+) SetToBag({tk})

Finished(tk) == tasks (-) SetToBag({tk})

Continued(tk, next) == (tasks (-) SetToBag({tk})) (+) SetToBag({next})

\* what is left to run of call tk once its component is gone: its database
\* requests still run, its state updates have no effect any more
Orphan(tk) ==
    IF \/ tk.pc \in {"insert", "order", "sim_order"}
       \/ tk.pc = "response" /\ tk.response.redirectUrl # NULL
    THEN {[tk EXCEPT !.live = FALSE]}
    ELSE {}

\* the calls in flight after the component of page c went away
Orphaned(tk, c) ==
    LET keep == {t \in DOMAIN tk : t.page # c}
        gone == UNION {Orphan(t) : t \in DOMAIN tk \ keep}
        Copies(o) == {t \in DOMAIN tk \ keep : o \in Orphan(t)}
        n(o) == LET S == Copies(o)
                    a == CHOOSE t \in S : TRUE
                IN IF Cardinality(S) = 1 THEN tk[a]
                   ELSE tk[a] + tk[CHOOSE t \in S \ {a} : TRUE]
    IN [t \in keep \cup gone |-> IF t \in keep THEN tk[t] ELSE n(t)]

\* "" stands for a URL without ?method=
UrlMethods == {"", "afrimoney", "stripe", "paypal"}

\* Payment.fetchOrder and the first render of PaymentProcessor
LoadPage(c, o, param) ==
    /\ ~pp[c].mounted
    /\ o \in DOMAIN orders
    /\ orders[o].payment_status # "completed"
    /\ pp' = [pp EXCEPT ![c] =
                [mounted |-> TRUE, orderId |-> o,
                 paymentMethod |-> IF param # "" THEN param ELSE orders[o].payment_method,
                 amount |-> orders[o].total_amount, processing |-> FALSE,
                 paymentId |-> NULL, paymentStatus |-> "null", interval |-> NULL,
                 onError |-> 0]]
    /\ UNCHANGED <<orders, order_items, payments, orders_check, catalogVars, cartVars, checkoutVars, tasks, formVars>>

\* "Back to Order": the page is left and the component unmounts
LeavePage(c) ==
    /\ pp[c].mounted
    /\ pp' = [pp EXCEPT ![c] = Unmounted]
    /\ tasks' = Orphaned(tasks, c)
    /\ UNCHANGED <<orders, order_items, payments, orders_check, catalogVars, cartVars, checkoutVars, formVars>>

\* initiatePayment up to the call of paymentService.processPayment
initiatePayment(c, st) ==
    /\ CanStart
    /\ pp' = [pp EXCEPT ![c] = useEffect([st EXCEPT !.processing = TRUE])]
    /\ tasks' = Started(Task("insert", c, NULL,
                             [orderId |-> st.orderId, amount |-> st.amount,
                              paymentMethod |-> st.paymentMethod], "null"))
    /\ UNCHANGED <<orders, order_items, payments, orders_check, catalogVars, cartVars, checkoutVars, formVars>>

\* the Start Payment button
StartPayment(c) ==
    /\ pp[c].mounted
    /\ pp[c].paymentId = NULL
    /\ ~pp[c].processing
    /\ initiatePayment(c, pp[c])

\* the Retry Payment button
retryPayment(c) ==
    /\ pp[c].mounted
    /\ pp[c].paymentStatus \in {"failed", "cancelled"}
    /\ initiatePayment(c, [pp[c] EXCEPT !.paymentId = NULL, !.paymentStatus = "null"])

\* processPayment: the payments insert of the dispatched method
ProcessPaymentInsert(tk, insertError) ==
    /\ tk.pc = "insert"
    /\ LET rows == processPayment(tk.request)
       IN IF rows = {} \/ insertError
          THEN /\ tasks' = IF tk.live
                           THEN Continued(tk, [tk EXCEPT !.pc = "response"])
                           ELSE Finished(tk)
               /\ UNCHANGED payments
          ELSE /\ DOMAIN payments # PaymentIds
               /\ LET id == FreshId(payments, PaymentIds)
                  IN /\ payments' = WithRow(payments, id, CHOOSE r \in rows : TRUE)
                     /\ tasks' = Continued(tk, [tk EXCEPT !.pc = "order", !.pid = id])
    /\ UNCHANGED <<orders, order_items, orders_check, catalogVars, cartVars, checkoutVars, pp, formVars>>

\* processPayment: updateOrderPaymentStatus(orderId, 'pending') and the return
ProcessPaymentOrder(tk, updateError) ==
    /\ tk.pc = "order"
    /\ orders' = updateOrderPaymentStatus(tk.request.orderId, "pending", updateError)
    /\ LET next == [tk EXCEPT !.pc = "response",
                              !.response = SuccessResponse(tk.pid,
                                               payments[tk.pid].payment_method)]
       IN tasks' = IF Orphan(next) = {} /\ ~tk.live THEN Finished(tk)
                   ELSE Continued(tk, next)
    /\ UNCHANGED <<order_items, payments, orders_check, catalogVars, cartVars, checkoutVars, pp, formVars>>

\* initiatePayment from the answer of processPayment to its end
InitiateDone(tk) ==
    /\ tk.pc = "response"
    /\ LET c == tk.page
           r == tk.response
           rest == Finished(tk)
       IN IF r.success /\ r.redirectUrl # NULL
          THEN \* window.location.href: the page and all its scripts are gone
               /\ pp' = [pp EXCEPT ![c] = Unmounted]
               /\ tasks' = [t \in {u \in DOMAIN rest : u.page # c} |-> rest[t]]
          ELSE /\ tasks' = rest
               /\ IF r.success
                  THEN pp' = [pp EXCEPT ![c] =
                                useEffect([pp[c] EXCEPT !.paymentId = r.paymentId,
                                                        !.processing = FALSE])]
                  ELSE pp' = [pp EXCEPT ![c] = Reported([pp[c] EXCEPT !.processing = FALSE])]
    /\ UNCHANGED <<orders, order_items, payments, orders_check, catalogVars, cartVars, checkoutVars, formVars>>

\* a status check starts: the request of paymentService.checkPaymentStatus
StartCheck(c, pid, readError) ==
    /\ CanStart
    /\ tasks' = Started(Task("deliver", c, pid, NoRequest,
                             checkPaymentStatus(pid, readError)))
    /\ UNCHANGED <<orders, order_items, payments, orders_check, catalogVars, cartVars, checkoutVars, pp, formVars>>

\* TimerTick as it would be with an interval that is cleared by the first answer
TimerTickUntilAnswered(c, readError) ==
    /\ pp[c].interval # NULL
    /\ pp[c].paymentStatus = "null"
    /\ StartCheck(c, pp[c].interval, readError)

\* the interval fires and calls checkPaymentStatus of the render that set it
TimerTick(c, readError) ==
    /\ pp[c].interval # NULL
    /\ StartCheck(c, pp[c].interval, readError)

\* the Check Status button
CheckStatusClick(c, readError) ==
    /\ pp[c].mounted
    /\ pp[c].paymentId # NULL
    /\ pp[c].paymentStatus = "pending"
    /\ ~pp[c].processing
    /\ StartCheck(c, pp[c].paymentId, readError)

\* simulateSuccess / simulateFailure: simulatePaymentCompletion up to the
\* answer of the payments update
SimulateClick(c, success, updateError) ==
    /\ pp[c].mounted
    /\ pp[c].paymentId # NULL
    /\ pp[c].paymentStatus = "pending"
    /\ CanStart
    /\ LET pid == pp[c].paymentId
           status == IF success THEN "completed" ELSE "failed"
           transactionId == IF success THEN TxnId ELSE NULL
       IN IF updateError
          THEN /\ tasks' = Started(Task("read", c, pid, NoRequest, status))
               /\ UNCHANGED payments
          ELSE /\ tasks' = Started(Task("sim_order", c, pid, NoRequest, status))
               /\ payments' = updatePaymentStatus(pid, status, transactionId)
    /\ UNCHANGED <<orders, order_items, orders_check, catalogVars, cartVars, checkoutVars, pp, formVars>>

\* updatePaymentStatus: read the payment's order_id, update that order
UpdateStatusOrder(tk, updateError) ==
    /\ tk.pc = "sim_order"
    /\ orders' = updateOrderPaymentStatus(payments[tk.pid].order_id, tk.status,
                                          updateError)
    /\ tasks' = IF tk.live THEN Continued(tk, [tk EXCEPT !.pc = "read"])
                ELSE Finished(tk)
    /\ UNCHANGED <<order_items, payments, orders_check, catalogVars, cartVars, checkoutVars, pp, formVars>>

\* simulateSuccess / simulateFailure: the request of the closing checkPaymentStatus
SimulateCheck(tk, readError) ==
    /\ tk.pc = "read"
    /\ tasks' = Continued(tk, [tk EXCEPT !.pc = "deliver",
                                         !.status = checkPaymentStatus(tk.pid, readError)])
    /\ UNCHANGED <<orders, order_items, payments, orders_check, catalogVars, cartVars, checkoutVars, pp, formVars>>

\* checkPaymentStatus (component) from the answer of the service on
CheckDone(tk) ==
    /\ tk.pc = "deliver"
    /\ pp' = [pp EXCEPT ![tk.page] =
                LET st == [pp[tk.page] EXCEPT !.paymentStatus = tk.status]
                IN IF tk.status \in {"failed", "cancelled"} THEN Reported(st) ELSE st]
    /\ tasks' = IF tk.status = "completed"
                THEN Continued(tk, [tk EXCEPT !.pc = "timeout"])
                ELSE Finished(tk)
    /\ UNCHANGED <<orders, order_items, payments, orders_check, catalogVars, cartVars, checkoutVars, formVars>>

\* setTimeout(() => onSuccess(paymentId), 1500): Payment.handlePaymentSuccess
\* shows the success screen, which has no PaymentProcessor
SuccessTimeout(tk) ==
    /\ tk.pc = "timeout"
    /\ pp' = [pp EXCEPT ![tk.page] = Unmounted]
    /\ tasks' = Orphaned(Finished(tk), tk.page)
    /\ UNCHANGED <<orders, order_items, payments, orders_check, catalogVars, cartVars, checkoutVars, formVars>>

PayOrderIds == 1..MaxPayOrders

\* every order has been placed by a finished checkout of one line
InitPayment ==
    /\ orders_check = PaymentStatusCheck
    /\ orders = [o \in PayOrderIds |->
                   OrderRow(10 + deliveryFee, deliveryFee, "orange_money")]
    /\ order_items = [i \in PayOrderIds |-> ItemRow(i, 1, 1, 10, 10)]
    /\ payments = NoRows
    /\ InitCatalog
    /\ InitBrowser
    /\ InitAccounts

NextPayment ==
    \/ \E c \in Pages, o \in PayOrderIds, m \in UrlMethods : LoadPage(c, o, m)
    \/ \E c \in Pages : LeavePage(c)
    \/ \E c \in Pages : StartPayment(c)
    \/ \E c \in Pages : retryPayment(c)
    \/ \E tk \in DOMAIN tasks, e \in BOOLEAN : ProcessPaymentInsert(tk, e)
    \/ \E tk \in DOMAIN tasks, e \in BOOLEAN : ProcessPaymentOrder(tk, e)
    \/ \E tk \in DOMAIN tasks : InitiateDone(tk)
    \/ \E c \in Pages, e \in BOOLEAN : TimerTick(c, e)
    \/ \E c \in Pages, e \in BOOLEAN : CheckStatusClick(c, e)
    \/ \E c \in Pages, s \in BOOLEAN, e \in BOOLEAN : SimulateClick(c, s, e)
    \/ \E tk \in DOMAIN tasks, e \in BOOLEAN : UpdateStatusOrder(tk, e)
    \/ \E tk \in DOMAIN tasks, e \in BOOLEAN : SimulateCheck(tk, e)
    \/ \E tk \in DOMAIN tasks : CheckDone(tk)
    \/ \E tk \in DOMAIN tasks : SuccessTimeout(tk)

SpecPayment == InitPayment /\ [][NextPayment]_vars

\* the interval of page 1 fires
Tick == \E e \in BOOLEAN : TimerTick(1, e)

\* a request in flight is answered and the code after its await runs
Answer ==
    \E tk \in DOMAIN tasks :
        \/ \E e \in BOOLEAN : ProcessPaymentInsert(tk, e)
        \/ \E e \in BOOLEAN : ProcessPaymentOrder(tk, e)
        \/ InitiateDone(tk)
        \/ \E e \in BOOLEAN : UpdateStatusOrder(tk, e)
        \/ \E e \in BOOLEAN : SimulateCheck(tk, e)
        \/ CheckDone(tk)
        \/ SuccessTimeout(tk)

\* one payment page
NextPolling ==
    \/ \E o \in PayOrderIds : LoadPage(1, o, "")
    \/ LeavePage(1)
    \/ StartPayment(1)
    \/ retryPayment(1)
    \/ \E s \in BOOLEAN, e \in BOOLEAN : SimulateClick(1, s, e)
    \/ Tick
    \/ Answer

\* setInterval keeps firing, and every request is answered in the end
FairSpecPolling ==
    InitPayment /\ [][NextPolling]_vars /\ SF_vars(Tick) /\ WF_vars(Answer)

(***************************************************************************)
(* PaymentService called directly, with every value its signatures admit   *)
(***************************************************************************)
\* the status parameter of updatePaymentStatus
PaymentStatuses == {"pending", "completed", "failed", "cancelled"}

\* paymentService.processPayment(request) by a caller that is no component
CallProcessPayment(o, method) ==
    /\ CanStart
    /\ o \in DOMAIN orders
    /\ tasks' = Started([Task("insert", NULL, NULL,
                              [orderId |-> o, amount |-> orders[o].total_amount,
                               paymentMethod |-> method], "null")
                         EXCEPT !.live = FALSE])
    /\ UNCHANGED <<orders, order_items, payments, orders_check, catalogVars, cartVars,
                   checkoutVars, pp, formVars>>

\* paymentService.updatePaymentStatus(paymentId, status, transactionId) up to
\* the answer of the payments update
CallUpdatePaymentStatus(pid, status, transactionId, updateError) ==
    /\ CanStart
    /\ pid \in DOMAIN payments
    /\ IF updateError
       THEN UNCHANGED <<payments, tasks, formVars>>
       ELSE /\ payments' = updatePaymentStatus(pid, status, transactionId)
            /\ tasks' = Started([Task("sim_order", NULL, pid, NoRequest, status)
                                 EXCEPT !.live = FALSE])
    /\ UNCHANGED <<orders, order_items, orders_check, catalogVars, cartVars, checkoutVars, pp, formVars>>

\* placed orders, in a database whose orders table is the one of either migration
InitService ==
    /\ orders_check \in {PaymentStatusCheck, FirstPaymentStatusCheck}
    /\ orders = [o \in PayOrderIds |->
                   OrderRow(10 + deliveryFee, deliveryFee, "orange_money")]
    /\ order_items = [i \in PayOrderIds |-> ItemRow(i, 1, 1, 10, 10)]
    /\ payments = NoRows
    /\ InitCatalog
    /\ InitBrowser
    /\ InitAccounts

NextService ==
    \/ \E o \in PayOrderIds, m \in PaymentMethods \cup {"paypal"} : CallProcessPayment(o, m)
    \/ \E tk \in DOMAIN tasks, e \in BOOLEAN : ProcessPaymentInsert(tk, e)
    \/ \E tk \in DOMAIN tasks, e \in BOOLEAN : ProcessPaymentOrder(tk, e)
    \/ \E pid \in PaymentIds, st \in PaymentStatuses, txn \in {NULL, TxnId}, e \in BOOLEAN :
          CallUpdatePaymentStatus(pid, st, txn, e)
    \/ \E tk \in DOMAIN tasks, e \in BOOLEAN : UpdateStatusOrder(tk, e)

SpecService == InitService /\ [][NextService]_vars

(***************************************************************************)
(* Orders after checkout: the status select of the vendor and admin pages  *)
(***************************************************************************)
\* the SelectItem values of the order status select
ORDER_STATUSES == {"pending", "confirmed", "dispatched", "in_transit", "delivered", "cancelled"}

\* VendorOrderManagement.updateOrderStatus / OrderManagement.updateOrderStatus
updateOrderStatus(orderId, newStatus, error) ==
    /\ orderId \in DOMAIN orders
    /\ orders[orderId].status # newStatus
    /\ orders' = IF error THEN orders ELSE [orders EXCEPT ![orderId].status = newStatus]
    /\ UNCHANGED <<order_items, payments, orders_check, catalogVars, cartVars, checkoutVars, payVars, formVars>>

\* a customer who checks out in tab 1 and pays on page 1, and the vendor
\* working on the orders
NextOrderLife ==
    \/ \E o \in OrderIds, st \in {"delivered", "cancelled"}, e \in BOOLEAN :
          updateOrderStatus(o, st, e)
    \/ AddToCart(1, 2)
    \/ \E e \in BOOLEAN : SubmitOrder(1, "afrimoney", e)
    \/ \E e \in BOOLEAN : SubmitItems(1, e)
    \/ \E o \in PayOrderIds : LoadPage(1, o, "")
    \/ StartPayment(1)
    \/ \E tk \in DOMAIN tasks, e \in BOOLEAN : ProcessPaymentInsert(tk, e)
    \/ \E tk \in DOMAIN tasks, e \in BOOLEAN : ProcessPaymentOrder(tk, e)
    \/ \E tk \in DOMAIN tasks : InitiateDone(tk)
    \/ \E e \in BOOLEAN : TimerTick(1, e)
    \/ \E s \in BOOLEAN, e \in BOOLEAN : SimulateClick(1, s, e)
    \/ \E tk \in DOMAIN tasks, e \in BOOLEAN : UpdateStatusOrder(tk, e)
    \/ \E tk \in DOMAIN tasks, e \in BOOLEAN : SimulateCheck(tk, e)
    \/ \E tk \in DOMAIN tasks : CheckDone(tk)

SpecOrderLife == InitPayment /\ [][NextOrderLife]_vars

(***************************************************************************)
(* Row-level policies on vendors and products, and the Products page       *)
(***************************************************************************)
\* public.has_role(uid, 'admin')
has_role_admin(uid) == <<uid, "admin">> \in user_roles

\* SELECT on vendors: "Vendors can manage their own profile", "Public can view
\* verified vendors" / "Everyone can view verified vendors", "Admins can
\* manage all vendors" (permissive policies: any one of them admits the row)
CanViewVendor(uid, v) ==
    \/ vendors[v].user_id = uid
    \/ vendors[v].verification_status = "verified"
    \/ has_role_admin(uid)

\* SELECT on products: "Everyone can view active products", "Public can view
\* active products", "Vendors can manage their own products", "Admins can
\* manage all products"
CanViewProduct(uid, p) ==
    \/ products[p].is_active
    \/ /\ products[p].is_active
       /\ \E v \in DOMAIN vendors :
             /\ v = products[p].vendor_id
             /\ CanViewVendor(uid, v)
             /\ vendors[v].verification_status = "verified"
    \/ \E v \in DOMAIN vendors :
          v = products[p].vendor_id /\ CanViewVendor(uid, v) /\ vendors[v].user_id = uid
    \/ has_role_admin(uid)

\* the embedded vendors (business_name, location) of a product row: null when
\* the viewer may not see the vendor
EmbeddedVendor(uid, p) ==
    IF CanViewVendor(uid, products[p].vendor_id) THEN products[p].vendor_id ELSE NULL

\* fetchProducts, first query: .eq('is_active', true).not('vendors', 'is', null)
\* and the filter product.vendors !== null
PrimaryQuery(uid) ==
    {p \in DOMAIN products :
        CanViewProduct(uid, p) /\ products[p].is_active /\ EmbeddedVendor(uid, p) # NULL}

\* fetchProducts, second query: .eq('is_active', true) only
FallbackQuery(uid) ==
    {p \in DOMAIN products : CanViewProduct(uid, p) /\ products[p].is_active}

\* Products.fetchProducts by viewer uid
fetchProducts(uid, error, fallbackError) ==
    /\ listing' = [listing EXCEPT ![uid] =
                      IF ~error THEN PrimaryQuery(uid)
                      ELSE IF ~fallbackError THEN FallbackQuery(uid)
                      ELSE {}]
    /\ UNCHANGED <<orders, order_items, payments, orders_check, vendors, products, cartVars,
                   checkoutVars, payVars, formVars>>

\* AdminVerification.updateVerificationStatus, from the buttons of a pending
\* or rejected vendor
updateVerificationStatus(v, status) ==
    /\ v \in DOMAIN vendors
    /\ \/ vendors[v].verification_status = "pending"
       \/ vendors[v].verification_status = "rejected" /\ status = "verified"
    /\ vendors' = [vendors EXCEPT ![v].verification_status = status]
    /\ UNCHANGED <<orders, order_items, payments, orders_check, products, listing, cartVars,
                   checkoutVars, payVars, formVars>>

\* ProductForm.onSubmit of an existing product by its vendor: is_active saved
SaveProduct(p, active) ==
    /\ p \in DOMAIN products
    /\ products[p].is_active # active
    /\ products' = [products EXCEPT ![p].is_active = active]
    /\ UNCHANGED <<orders, order_items, payments, orders_check, vendors, listing, cartVars,
                   checkoutVars, payVars, formVars>>

\* two registered vendors awaiting verification, each with one active product
InitListing ==
    /\ orders_check = PaymentStatusCheck
    /\ orders = NoRows
    /\ order_items = NoRows
    /\ payments = NoRows
    /\ vendors = [v \in VendorIds |-> [user_id |-> v, business_name |-> "farm", verification_status |-> "pending"]]
    /\ products = [p \in ProductIds |->
                     [vendor_id |-> p, is_active |-> TRUE,
                      price |-> IF p = 1 THEN 10 ELSE 15, stock_quantity |-> 1,
                      image_url |-> "null"]]
    /\ listing = [u \in Viewers |-> {}]
    /\ InitBrowser
    /\ InitAccounts

NextListing ==
    \/ \E u \in Viewers, e \in BOOLEAN, f \in BOOLEAN : fetchProducts(u, e, f)
    \/ \E v \in VendorIds, st \in {"verified", "rejected"} : updateVerificationStatus(v, st)
    \/ \E p \in ProductIds, a \in BOOLEAN : SaveProduct(p, a)

SpecListing == InitListing /\ [][NextListing]_vars

(***************************************************************************)
(* ProductForm.onSubmit with an image file                                 *)
(* image_url values: "null" is SQL NULL, "" the empty form field           *)
(***************************************************************************)
\* uploadImage: the public URL, or null after any error (all are caught)
uploadImage(uploadError) == IF uploadError THEN "null" ELSE "public_url"

\* the image URL as it would be without the data URL fallback
imageUrlNoFallback(uploadedUrl, readerError) == uploadedUrl

\* onSubmit: the uploaded URL, else the data URL of the file, else null
imageUrlAfterUpload(uploadedUrl, readerError) ==
    IF uploadedUrl # "null" THEN uploadedUrl
    ELSE IF readerError THEN "null" ELSE "data_url"

\* ProductForm.onSubmit up to productData: the form of product p (of a new
\* product when p has no row) with the values it was opened with
\* (product?.image_url || ""), with or without a selected image file
ProductFormSubmit(p, imageFile, uploadError, readerError) ==
    /\ form.pc = "idle"
    /\ LET data == IF p \in DOMAIN products
                   THEN [products[p] EXCEPT !.image_url = IF @ = "null" THEN "" ELSE @]
                   ELSE NewProduct
       IN form' = [pc |-> "save", product |-> p, data |-> data,
                   image_url |-> IF imageFile
                                 THEN imageUrlAfterUpload(uploadImage(uploadError),
                                                          readerError)
                                 ELSE data.image_url,
                   uploadFailed |-> imageFile /\ uploadError]
    /\ UNCHANGED <<orders, order_items, payments, orders_check, catalogVars, cartVars,
                   checkoutVars, payVars, user_roles, registration>>

\* ProductForm.onSubmit: the products update or insert of {...data,
\* vendor_id, image_url}, and the end
ProductFormSave(saveError) ==
    /\ form.pc = "save"
    /\ form' = IdleForm
    /\ products' =
          IF saveError THEN products
          ELSE WithRow(products, form.product,
                       [form.data EXCEPT !.image_url = form.image_url])
    /\ UNCHANGED <<orders, order_items, payments, orders_check, vendors, listing, cartVars,
                   checkoutVars, payVars, user_roles, registration>>

\* one verified vendor with one product
InitProductForm ==
    /\ orders_check = PaymentStatusCheck
    /\ orders = NoRows
    /\ order_items = NoRows
    /\ payments = NoRows
    /\ vendors = [v \in {1} |-> [user_id |-> 1, business_name |-> "farm",
                                  verification_status |-> "verified"]]
    /\ products = [p \in {1} |->
                     [vendor_id |-> 1, is_active |-> TRUE, price |-> 10,
                      stock_quantity |-> 1, image_url |-> "null"]]
    /\ listing = [u \in Viewers |-> {}]
    /\ InitBrowser
    /\ InitAccounts

NextProductForm ==
    \/ \E p \in ProductIds, f \in BOOLEAN, u \in BOOLEAN, r \in BOOLEAN :
          ProductFormSubmit(p, f, u, r)
    \/ \E e \in BOOLEAN : ProductFormSave(e)
    \/ \E p \in ProductIds, price \in Prices : SetPrice(p, price)
    \/ \E p \in ProductIds, a \in BOOLEAN : SaveProduct(p, a)

SpecProductForm == InitProductForm /\ [][NextProductForm]_vars

(***************************************************************************)
(* Vendor registration, vendor profile, and the policies on vendors        *)
(***************************************************************************)
VerificationStatuses == {"pending", "verified", "rejected"}

BusinessNames == {"farm", "shop"}

\* "Admins can manage all vendors" and "Vendors can manage their own profile"
\* (FOR ALL), "Users can create vendor profile" (FOR INSERT): a row whose
\* user_id is owner passes for the admin and for the owner
CanManageVendor(uid, owner) == has_role_admin(uid) \/ uid = owner

HasVendorRole(u) == <<u, "vendor">> \in user_roles

HasVendorRow(u) == \E v \in DOMAIN vendors : vendors[v].user_id = u

\* an UPDATE of vendors.verification_status requested by user uid through the
\* REST interface of the database; rows the policies hide are not updated
UpdateVendorRequest(uid, v, status) ==
    /\ v \in DOMAIN vendors
    /\ CanManageVendor(uid, vendors[v].user_id)
    /\ vendors[v].verification_status # status
    /\ vendors' = [vendors EXCEPT ![v].verification_status = status]
    /\ UNCHANGED <<orders, order_items, payments, orders_check, products, listing, cartVars,
                   checkoutVars, payVars, formVars>>

\* an INSERT into vendors requested by user uid through the REST interface
InsertVendorRequest(uid, owner, status) ==
    /\ CanManageVendor(uid, owner)
    /\ DOMAIN vendors # VendorIds
    /\ vendors' = WithRow(vendors, FreshId(vendors, VendorIds),
                          [user_id |-> owner, business_name |-> "farm",
                           verification_status |-> status])
    /\ UNCHANGED <<orders, order_items, payments, orders_check, products, listing, cartVars,
                   checkoutVars, payVars, formVars>>

\* VendorProfile.onSubmit: the vendors update of the signed-in user uid
VendorProfileSubmit(uid, v, name) ==
    /\ v \in DOMAIN vendors
    /\ CanManageVendor(uid, vendors[v].user_id)
    /\ vendors[v].business_name # name
    /\ vendors' = [vendors EXCEPT ![v].business_name = name]
    /\ UNCHANGED <<orders, order_items, payments, orders_check, products, listing, cartVars,
                   checkoutVars, payVars, formVars>>

\* VendorRegistration.handleSubmit up to the answer of the user_roles insert;
\* the insert fails when the user has the vendor role already (policy
\* "Users can add vendor role for themselves", UNIQUE (user_id, role))
RegisterRole(u, roleError) ==
    /\ registration[u] \in {"idle", "error"}
    /\ IF roleError \/ HasVendorRole(u)
       THEN /\ registration' = [registration EXCEPT ![u] = "error"]
            /\ UNCHANGED user_roles
       ELSE /\ user_roles' = user_roles \cup {<<u, "vendor">>}
            /\ registration' = [registration EXCEPT ![u] = "vendor"]
    /\ UNCHANGED <<orders, order_items, payments, orders_check, catalogVars, cartVars,
                   checkoutVars, payVars, form>>

\* VendorRegistration.handleSubmit from the vendors insert to its end
RegisterVendor(u, vendorError) ==
    /\ registration[u] = "vendor"
    /\ IF vendorError \/ DOMAIN vendors = VendorIds
       THEN /\ registration' = [registration EXCEPT ![u] = "error"]
            /\ UNCHANGED vendors
       ELSE /\ vendors' = WithRow(vendors, FreshId(vendors, VendorIds),
                                  [user_id |-> u, business_name |-> "farm",
                                   verification_status |-> "pending"])
            /\ registration' = [registration EXCEPT ![u] = "success"]
    /\ UNCHANGED <<orders, order_items, payments, orders_check, products, listing, cartVars,
                   checkoutVars, payVars, user_roles, form>>

\* nobody has registered as a vendor yet
InitRegistration ==
    /\ orders_check = PaymentStatusCheck
    /\ orders = NoRows
    /\ order_items = NoRows
    /\ payments = NoRows
    /\ vendors = NoRows
    /\ products = NoRows
    /\ listing = [u \in Viewers |-> {}]
    /\ InitBrowser
    /\ InitAccounts

\* the pages of the application that write vendors and user_roles
NextRegistration ==
    \/ \E u \in Users, e \in BOOLEAN : RegisterRole(u, e)
    \/ \E u \in Users, e \in BOOLEAN : RegisterVendor(u, e)
    \/ \E v \in VendorIds, name \in BusinessNames :
          VendorProfileSubmit(vendors[v].user_id, v, name)
    \/ \E v \in VendorIds, st \in {"verified", "rejected"} : updateVerificationStatus(v, st)

SpecRegistration == InitRegistration /\ [][NextRegistration]_vars

\* the same pages, and users who send their own requests to the database
NextVendorPolicies ==
    \/ NextRegistration
    \/ \E uid \in Users, v \in VendorIds, st \in VerificationStatuses :
          UpdateVendorRequest(uid, v, st)
    \/ \E uid \in Users, owner \in Users, st \in VerificationStatuses :
          InsertVendorRequest(uid, owner, st)

SpecVendorPolicies == InitRegistration /\ [][NextVendorPolicies]_vars

(***************************************************************************)
(* Properties                                                              *)
(***************************************************************************)
\* order o's stored total agrees with its current line items
TotalConsistent(o) ==
    orders[o].total_amount = SumSubtotals(order_items, o) + orders[o].delivery_fee

\* C1: after any sequence of order_items inserts, updates and deletes, every
\* order's total_amount is the sum of its items' subtotals plus delivery_fee
C1_TotalAfterItemChanges == \A o \in DOMAIN orders : TotalConsistent(o)

\* C2: in every state a client can see, from the moment the order row exists,
\* total_amount - delivery_fee is the sum of the subtotals of the order's items
C2_TotalNeverVisiblyInconsistent ==
    \A o \in DOMAIN orders :
        orders[o].total_amount - orders[o].delivery_fee = SumSubtotals(order_items, o)

\* order o has an order_items row for line k of the cart it was created from
HasLine(o, k) ==
    \E i \in DOMAIN order_items :
        /\ order_items[i].order_id = o
        /\ order_items[i].product_id = placed[o][k].productId
        /\ order_items[i].quantity = placed[o][k].quantity

\* C8: once onSubmit has finished (no run of it still holds the order), every
\* order has the order_items rows of every line of the cart it was created from
C8_OrderAndItemsTogether ==
    \A o \in DOMAIN orders :
        (\A t \in Tabs : checkout[t].order # o) =>
            \A k \in 1..Len(placed[o]) : HasLine(o, k)

\* C9: double submission is not guarded against: two runs of onSubmit that are
\* both past their orders insert always hold two distinct, existing order rows,
\* also when both were started from the same cart contents
C9_DoubleSubmitNotGuarded ==
    \A t1, t2 \in Tabs :
        (t1 # t2 /\ checkout[t1].pc = "items" /\ checkout[t2].pc = "items") =>
            /\ checkout[t1].order # checkout[t2].order
            /\ {checkout[t1].order, checkout[t2].order} \subseteq DOMAIN orders

\* two runs of onSubmit over the same cart contents, both inserts done
C9_Witness ==
    \E t1, t2 \in Tabs :
        /\ t1 # t2
        /\ checkout[t1].pc = "items" /\ checkout[t2].pc = "items"
        /\ checkout[t1].items = checkout[t2].items
        /\ checkout[t1].order # checkout[t2].order
        /\ {checkout[t1].order, checkout[t2].order} \subseteq DOMAIN orders

\* C3: a payment row whose status is completed, failed or cancelled keeps
\* that status in every later step
C3_TerminalStatusIsFinal ==
    [][\A p \in DOMAIN payments :
          payments[p].status \in Terminal => payments'[p].status = payments[p].status]_vars

\* C4: whenever a payment row has a terminal status, its order's
\* payment_status equals that status
C4_OrderMirrorsTerminalPayment ==
    \A p \in DOMAIN payments :
        payments[p].status \in Terminal =>
            orders[payments[p].order_id].payment_status = payments[p].status

\* C5: no viewer's product list holds a product whose vendor is not verified
C5_OnlyVerifiedVendorsListed ==
    \A u \in Viewers : \A p \in listing[u] :
        vendors[products[p].vendor_id].verification_status = "verified"

PaymentsOf(o) == {p \in DOMAIN payments : payments[p].order_id = o}

\* C6: every order has at most one payment row
C6_OnePaymentPerOrder == \A o \in DOMAIN orders : Cardinality(PaymentsOf(o)) <= 1

\* C7: the poll interval is cleared once the component is unmounted and once
\* it has observed a terminal status
C7_PollStopsOnUnmountOrTerminal ==
    \A c \in Pages :
        (~pp[c].mounted \/ pp[c].paymentStatus \in Terminal) => pp[c].interval = NULL

\* a call of initiatePayment whose method processPayment does not support
Unsupported(tk) ==
    tk.pc \in {"insert", "order", "response"} /\ tk.request.paymentMethod \notin PaymentMethods

\* C10: every payment row is created with status pending and no transaction
\* id by one of the three methods; a call with an unsupported method inserts
\* no row and gets success = false
C10_CreatedPendingOrNotAtAll ==
    [][/\ \A p \in DOMAIN payments' \ DOMAIN payments :
             /\ payments'[p].status = "pending"
             /\ payments'[p].transaction_id = NULL
             /\ payments'[p].payment_method \in PaymentMethods
       /\ \A tk \in DOMAIN tasks' :
             Unsupported(tk) =>
                /\ tk.pc # "order"
                /\ tk.pid = NULL
                /\ ~tk.response.success
       /\ (\E tk \in DOMAIN tasks : Unsupported(tk) /\ tk \notin DOMAIN tasks')
             => payments' = payments]_vars

\* a card payment has been created and a call with an unsupported method has
\* been answered
C10_Witness ==
    /\ \E p \in DOMAIN payments :
          payments[p].payment_method = "stripe" /\ payments[p].status = "pending"
    /\ \E tk \in DOMAIN tasks : Unsupported(tk) /\ tk.pc = "response"

\* the cart line of its order's checkout that row i of order_items was written from
FromCartLine(i) ==
    LET row == order_items[i]
    IN \E k \in 1..Len(placed[row.order_id]) :
          LET line == placed[row.order_id][k]
          IN /\ line.productId = row.product_id
             /\ line.price = row.unit_price
             /\ line.quantity = row.quantity

\* C11: every order_items row has subtotal = quantity * unit_price with the
\* unit_price of the cart line it came from, and a change of a product's price
\* changes no order_items row and no order
C11_SubtotalCapturedAtCheckout ==
    /\ [](\A i \in DOMAIN order_items :
             /\ order_items[i].subtotal = order_items[i].quantity * order_items[i].unit_price
             /\ FromCartLine(i))
    /\ [][products' # products => order_items' = order_items /\ orders' = orders]_vars

\* an order line whose product has a different price now than when it was ordered
C11_Witness ==
    \E i \in DOMAIN order_items :
        /\ order_items[i].unit_price # products[order_items[i].product_id].price
        /\ orders[order_items[i].order_id].total_amount
              = SumSubtotals(order_items, order_items[i].order_id) + deliveryFee

\* C12: a completed payment has a transaction id, a pending one has none, and
\* a row gets its transaction id only in a step that writes status completed
C12_TransactionIdFromCompletion ==
    /\ [](\A p \in DOMAIN payments :
             /\ payments[p].status = "completed" => payments[p].transaction_id # NULL
             /\ payments[p].status = "pending" => payments[p].transaction_id = NULL)
    /\ [][\A p \in DOMAIN payments' :
             (/\ payments'[p].transaction_id # NULL
              /\ (p \notin DOMAIN payments \/ payments[p].transaction_id = NULL))
                => payments'[p].status = "completed"]_vars

\* one payment failed without ever being completed, another one completed
C12_Witness ==
    \E p, q \in DOMAIN payments :
        /\ payments[p].status = "failed" /\ payments[p].transaction_id = NULL
        /\ payments[q].status = "completed" /\ payments[q].transaction_id = TxnId

\* C13: the step in which a failed initiation ends calls onError once and
\* leaves the component with no payment id, not processing and without a
\* poll interval, which are the conditions of the Start Payment button
C13_FailedInitiationOffersStart ==
    [][\A tk \in DOMAIN tasks :
          (InitiateDone(tk) /\ ~tk.response.success) =>
              LET before == pp[tk.page]
                  after == pp'[tk.page]
              IN /\ after.onError = IF before.onError < MaxErrors
                                    THEN before.onError + 1 ELSE MaxErrors
                 /\ after.paymentId = NULL
                 /\ ~after.processing
                 /\ after.interval = NULL]_vars

\* the onSubmit that inserted order o has ended
Created(o) == \A t \in Tabs : checkout[t].order # o

ItemsOf(items, o) == {<<i, items[i]>> : i \in {j \in DOMAIN items : items[j].order_id = o}}

\* C14: once its checkout has ended, an order keeps its row, its items, its
\* total_amount, delivery_fee, payment_method and customer fields in every
\* step; a step changes status or payment_status of at most one order
C14_OnlyStatusFieldsChange ==
    [][/\ \A o \in DOMAIN orders :
             Created(o) =>
                /\ o \in DOMAIN orders'
                /\ orders'[o] = [orders[o] EXCEPT !.status = orders'[o].status,
                                                  !.payment_status = orders'[o].payment_status]
                /\ ItemsOf(order_items', o) = ItemsOf(order_items, o)
       /\ Cardinality({o \in DOMAIN orders : orders'[o] # orders[o]}) <= 1]_vars

\* an order that was paid and delivered while another order was being placed
C14_Witness ==
    \E o \in DOMAIN orders :
        /\ orders[o].status = "delivered"
        /\ orders[o].payment_status = "completed"
        /\ orders[o].total_amount = 10 + deliveryFee
        /\ ItemsOf(order_items, o) # {}
        /\ \E q \in DOMAIN orders : q # o /\ ItemsOf(order_items, q) # {}

\* C15: the step of a simulate button that runs updatePaymentStatus leaves
\* every payment row but the one of its paymentId unchanged, and changes only
\* status and transaction_id of that one
C15_UpdateTouchesOnePayment ==
    [][\A c \in Pages, s \in BOOLEAN, e \in BOOLEAN :
          SimulateClick(c, s, e) =>
              /\ DOMAIN payments' = DOMAIN payments
              /\ \A p \in DOMAIN payments :
                    IF p = pp[c].paymentId
                    THEN payments'[p] =
                            [payments[p] EXCEPT !.status = payments'[p].status,
                                                !.transaction_id = payments'[p].transaction_id]
                    ELSE payments'[p] = payments[p]]_vars

\* one payment of an order was completed while another one of it stayed pending
C15_Witness ==
    \E p, q \in DOMAIN payments :
        /\ payments[p].order_id = payments[q].order_id
        /\ payments[p].status = "completed" /\ payments[p].transaction_id = TxnId
        /\ payments[q].status = "pending" /\ payments[q].transaction_id = NULL

\* C16: a remount of CartProvider leaves the tab with the items it held
\* before, and with total and itemCount computed from them
C16_CartSurvivesRemount ==
    [][\A t \in Tabs :
          ReloadTab(t) =>
              /\ cart'[t].items = cart[t].items
              /\ cart'[t].total = SumLines(cart[t].items)
              /\ cart'[t].itemCount = CountLines(cart[t].items)]_vars

\* C17: if from some time on page 1 stays mounted with payment p and p stays
\* pending, the interval fires again and again for ever; and a pending payment
\* gets another status only in the step of a simulate button
C17_PollingNeverStops ==
    /\ \A p \in PaymentIds :
          <>[](/\ pp[1].mounted
               /\ pp[1].paymentId = p
               /\ p \in DOMAIN payments
               /\ payments[p].status = "pending")
             => []<><<Tick>>_vars
    /\ [][\A p \in DOMAIN payments :
             (payments[p].status = "pending" /\ payments'[p].status # "pending")
                => \E s \in BOOLEAN, e \in BOOLEAN : SimulateClick(1, s, e)]_vars

\* the component has polled and seen 'pending', and polls again
C17_Witness ==
    /\ pp[1].mounted
    /\ pp[1].paymentStatus = "pending"
    /\ pp[1].interval = pp[1].paymentId
    /\ payments[pp[1].paymentId].status = "pending"
    /\ \E tk \in DOMAIN tasks : tk.pc = "deliver" /\ tk.pid = pp[1].paymentId

C19_CheckoutTotalEqualsTriggerTotal ==
    [][\A t \in Tabs :
          SubmitItems(t, FALSE) =>
              LET o == checkout[t].order
              IN /\ orders'[o].total_amount = orders[o].total_amount
                 /\ orders'[o].total_amount
                       = SumSubtotals(order_items', o) + orders'[o].delivery_fee]_vars

\* an order of two lines, one of them with a quantity set in the cart panel
C19_Witness ==
    \E o \in DOMAIN orders :
        /\ Created(o)
        /\ Cardinality(ItemsOf(order_items, o)) = 2
        /\ \E i \in DOMAIN order_items :
              order_items[i].order_id = o /\ order_items[i].quantity = MaxQty
        /\ orders[o].total_amount = 10 * MaxQty + 15 + deliveryFee

\* C20: once an order's payment_status is 'completed', no payment row is
\* inserted for that order and its payment_status is not set to 'pending'
C20_CompletedOrderStaysPaid ==
    [][\A o \in DOMAIN orders :
          orders[o].payment_status = "completed" =>
              /\ orders'[o].payment_status # "pending"
              /\ {p \in DOMAIN payments' : payments'[p].order_id = o} = PaymentsOf(o)]_vars

FailedStatuses == {"failed", "cancelled"}

\* C21: the timer of a component polls its current paymentId, and a status
\* answer that the component takes in is an answer for its current paymentId
C21_StatusRefersToCurrentPayment ==
    /\ [](\A c \in Pages : pp[c].interval # NULL => pp[c].interval = pp[c].paymentId)
    /\ [][\A tk \in DOMAIN tasks :
             CheckDone(tk) => tk.pid = pp[tk.page].paymentId]_vars

\* C22: an answer 'failed' or 'cancelled' calls onError only if the component
\* has not yet shown that payment as failed, and an answer 'completed'
\* schedules onSuccess only if none is scheduled for that payment
C22_CallbacksAtMostOnce ==
    [][\A tk \in DOMAIN tasks :
          CheckDone(tk) =>
              /\ tk.status \in FailedStatuses =>
                    ~(/\ pp[tk.page].paymentId = tk.pid
                      /\ pp[tk.page].paymentStatus \in FailedStatuses)
              /\ tk.status = "completed" =>
                    ~\E other \in DOMAIN tasks :
                         /\ other.pc = "timeout"
                         /\ other.page = tk.page
                         /\ other.pid = tk.pid]_vars

\* C23: when the component reports a payment as failed (onError, Retry
\* Payment offered), the stored row of that payment is not 'pending'
C23_FailedOnlyIfRowFailed ==
    [][\A tk \in DOMAIN tasks :
          (CheckDone(tk) /\ pp'[tk.page].paymentStatus \in FailedStatuses)
              => payments[tk.pid].status # "pending"]_vars

\* C24: a successful initiation carries a redirect URL exactly for stripe;
\* with one the browser leaves the page, without one the component stays
\* mounted and its interval polls the new payment
C24_RedirectIffStripe ==
    [][\A tk \in DOMAIN tasks :
          (InitiateDone(tk) /\ tk.response.success) =>
              LET method == payments[tk.response.paymentId].payment_method
              IN /\ (tk.response.redirectUrl # NULL) <=> (method = "stripe")
                 /\ method = "stripe" => ~pp'[tk.page].mounted
                 /\ method \in {"orange_money", "afrimoney"} =>
                       /\ pp'[tk.page].mounted
                       /\ pp'[tk.page].paymentId = tk.response.paymentId
                       /\ pp'[tk.page].interval = tk.response.paymentId]_vars

\* a card payment has redirected the browser and an afrimoney payment of the
\* same order is being polled
C24_Witness ==
    \E p, q \in DOMAIN payments :
        /\ payments[p].payment_method = "stripe"
        /\ payments[q].payment_method = "afrimoney"
        /\ \E c \in Pages : pp[c].mounted /\ pp[c].interval = q

\* C25: in every cart state, total is the sum of price * quantity over the
\* items and itemCount is the sum of their quantities
C25_CartTotalsMatchItems ==
    \A t \in Tabs :
        /\ cart[t].total = SumLines(cart[t].items)
        /\ cart[t].itemCount = CountLines(cart[t].items)

\* a cart of two lines after a quantity change, next to a tab that loaded it
C25_Witness ==
    /\ Len(cart[1].items) = 2
    /\ cart[1].itemCount = MaxQty + 1
    /\ cart[1].total = 10 * MaxQty + 15
    /\ cart[2].items = cart[1].items

\* C26: every cart line has 1 <= quantity <= its recorded maxStock, and an
\* ADD_ITEM or UPDATE_QUANTITY that would pass the stock limit it checks
\* leaves the cart as it was
C26_QuantityWithinRecordedStock ==
    /\ [](\A k \in 1..Len(cart[1].items) :
             /\ cart[1].items[k].quantity >= 1
             /\ cart[1].items[k].quantity <= cart[1].items[k].maxStock)
    /\ [][\A p \in ProductIds, k \in 1..Len(cart[1].items) :
             cart[1].items[k].productId = p =>
                 /\ (AddToCart(1, p)
                       /\ cart[1].items[k].quantity + 1 > products[p].stock_quantity)
                    => cart' = cart
                 /\ \A q \in 1..(MaxQty + 1) :
                       (handleQuantityChange(1, p, q) /\ q > cart[1].items[k].maxStock)
                          => cart' = cart]_vars

\* C27: a request that changes a vendor's verification_status, or inserts a
\* vendors row whose status is not 'pending', is admitted by the policies on
\* vendors only for a user with the admin role
C27_OnlyAdminSetsVerification ==
    [][\A uid \in Users, st \in VerificationStatuses :
          /\ \A v \in VendorIds :
                UpdateVendorRequest(uid, v, st) => has_role_admin(uid)
          /\ \A owner \in Users :
                (InsertVendorRequest(uid, owner, st) /\ st # "pending")
                    => has_role_admin(uid)]_vars

\* C28: when handleSubmit has ended for a user, with success or with an
\* error, that user has the vendor role exactly if a vendors row is theirs
C28_RoleIffVendorRow ==
    \A u \in Users :
        registration[u] \in {"error", "success"} => (HasVendorRole(u) <=> HasVendorRow(u))

\* C29: an onSubmit whose image upload failed goes on to the save with the
\* data URL of the file (null when encoding failed too), and the save writes
\* that value as the product's image_url
C29_UploadFailureFallsBack ==
    [][/\ \A p \in ProductIds, r \in BOOLEAN :
             ProductFormSubmit(p, TRUE, TRUE, r) =>
                 /\ form'.pc = "save"
                 /\ form'.image_url = IF r THEN "null" ELSE "data_url"
       /\ (ProductFormSave(FALSE) /\ form.uploadFailed) =>
             /\ form.product \in DOMAIN products'
             /\ products'[form.product].image_url = form.image_url
             /\ form.image_url \in {"data_url", "null"}]_vars

\* a new product saved with the data URL, and a product whose image was
\* replaced by null, both after a failed upload
C29_Witness ==
    /\ DOMAIN products = ProductIds
    /\ products[2].image_url = "data_url"
    /\ products[1].image_url = "null"
    /\ form.pc = "idle"

====
